---- MODULE Spec2Model ----
(***************************************************************************)
(* A model of the picross (nonogram) solver: Hint::permutations,           *)
(* perm_matches, sum_perms and overlay of src/src/hint.rs, the Board of    *)
(* src/src/board.rs and Picross::new / Picross::find_solution of           *)
(* src/src/main.rs.                                                        *)
(*                                                                         *)
(* Cell is bool.  Option<T> is modelled as a set with at most one element: *)
(* None is {} and Some(v) is {v}.  Indices are 0-based as in the source;   *)
(* TLA+ sequences are 1-based, so element i of a Vec is seq[i + 1].        *)
(* A panic (failed assertion, unwrap of None, arithmetic overflow,         *)
(* capacity overflow) is a fault.                                          *)
(***************************************************************************)
EXTENDS Integers, Sequences, FiniteSets, TLC

\* ------------------------------------------------------------------ bounds
\* Width and height of a puzzle range over 1..MaxDim (make_hints always
\* yields at least one hint per side: str::split yields at least one item).
MaxDim == 3
\* A hint given to the solver has sum + (blocks - 1) <= MaxSpan.
MaxSpan == 3
\* find_solution is called again until it has returned None MaxNone times.
MaxNone == 2
\* The pure-function specification draws a line length from 0..MaxLen and a
\* hint of at most MaxBlocks blocks, each in 1..MaxBlock.
MaxLen == 6
MaxBlocks == 3
MaxBlock == 3
\* The line-solving specification draws a three-valued line of length
\* 0..MaxLine.
MaxLine == 5
\* The board specification draws a board of width and height 1..MaxSide and
\* a row index and a vector length from 0..MaxSide.
MaxSide == 2
\* The merge specification draws at most MaxPatterns patterns, all of one
\* length in 0..MaxCells.
MaxPatterns == 3
MaxCells == 2

\* ------------------------------------------------------------ Option<T>
None == {}
Some(v) == {v}
is_some(o) == o # {}
is_none(o) == o = {}
unwrap(o) == CHOOSE v \in o : TRUE

\* A result that may be a panic instead of a value.
Ok(v) == [fault |-> FALSE, value |-> v]
Panic == [fault |-> TRUE, value |-> <<>>]

\* ------------------------------------------------------------ sequences
RECURSIVE Flatten(_)
Flatten(ss) ==
    IF ss = <<>> THEN <<>> ELSE Head(ss) \o Flatten(Tail(ss))

\* vec![v; n]
Repeat(v, n) == [k \in 1..n |-> v]

\* -------------------------------------------------------------- hint.rs
\* (mutant) the run starts one cell early
single_perm_shifted(i, line_len, length) ==
    [k \in 1..length |-> (k >= i /\ k < i + line_len)]

\* One block: `i` blanks, `line_len` filled cells, blanks up to `length`.
single_perm(i, line_len, length) ==
    [k \in 1..length |-> (k > i /\ k <= i + line_len)]

\* .collect::<IndexSet<_>>().into_iter().collect(): drop every repetition of
\* an earlier element, keeping the order of first occurrence.
RECURSIVE dedup(_)
dedup(s) ==
    IF s = <<>> THEN <<>>
    ELSE LET front == dedup(SubSeq(s, 1, Len(s) - 1))
             x == s[Len(s)]
         IN  IF \E k \in 1..Len(front) : front[k] = x
             THEN front
             ELSE Append(front, x)

\* for p in &mut subperms { p.push(false); for lp in lastperms { p ++ lp } }
combine(subperms, lastperms) ==
    LET n == Len(lastperms)
    IN  [j \in 1..(Len(subperms) * n) |->
            Append(subperms[((j - 1) \div n) + 1], FALSE)
                \o lastperms[((j - 1) % n) + 1]]

\* Hint::permutations.  `length - line_len` and `length - i - 1` are usize
\* subtractions.  When line_len > length in the multi-block arm the
\* subtraction overflows: a debug build panics there, and a release build
\* wraps, runs the loop up to i = length and panics in
\* Vec::with_capacity(usize::MAX - line_len + 1) ("capacity overflow").
\* Every build ends in a panic, so the arm is a fault.
RECURSIVE permutations(_, _)
permutations(lines, length) ==
    IF Len(lines) = 0 THEN Ok(<<Repeat(FALSE, length)>>)
    ELSE LET line_len == lines[Len(lines)]
             rest == SubSeq(lines, 1, Len(lines) - 1)
         IN  IF Len(rest) = 0
             THEN IF line_len > length
                  THEN Ok(<<>>)
                  ELSE Ok([i \in 1..(length - line_len + 1) |->
                              single_perm(i - 1, line_len, length)])
             ELSE IF line_len > length
                  THEN Panic
                  ELSE LET range == 1..(length - line_len - 1)
                           sub == [i \in range |-> permutations(rest, i)]
                           lst == [i \in range |->
                                     permutations(<<line_len>>, length - i - 1)]
                       IN  IF \E i \in range : sub[i].fault \/ lst[i].fault
                           THEN Panic
                           ELSE Ok(dedup(Flatten(
                                   [i \in range |->
                                      combine(sub[i].value, lst[i].value)])))

\* (mutant) the negation is missing: b == &Some(a)
perm_matches_same(x, y) == ~ \E k \in 1..Len(x) : y[k] = Some(x[k])

\* perm_matches: no cell of y is Some(!a) where x has a.
\* (assert_eq!(x.len(), y.len()) is perm_matches_assert.)
perm_matches_assert(x, y) == Len(x) = Len(y)
perm_matches(x, y) == ~ \E k \in 1..Len(x) : y[k] = Some(~ x[k])

\* (mutant) two cells that differ merge to blank instead of unknown
overlay_and(dst, src) ==
    [k \in 1..Len(dst) |->
        IF dst[k] = None THEN None
        ELSE Some(unwrap(dst[k]) /\ src[k])]

\* (mutant) an unknown cell takes the next pattern's value: (None, b) => Some(b)
overlay_refill(dst, src) ==
    [k \in 1..Len(dst) |->
        IF dst[k] = None THEN Some(src[k])
        ELSE IF unwrap(dst[k]) = src[k] THEN dst[k] ELSE None]

\* overlay(dst, src)
overlay(dst, src) ==
    [k \in 1..Len(dst) |->
        IF dst[k] = None THEN None
        ELSE IF unwrap(dst[k]) = src[k] THEN dst[k] ELSE None]

RECURSIVE fold_overlay(_, _)
fold_overlay(acc, perms) ==
    IF perms = <<>> THEN acc
    ELSE fold_overlay(overlay(acc, Head(perms)), Tail(perms))

\* sum_perms: None for no permutation, else the first one folded with the rest.
sum_perms(perms) ==
    IF perms = <<>> THEN None
    ELSE Some(fold_overlay([k \in 1..Len(perms[1]) |-> Some(perms[1][k])],
                           Tail(perms)))

\* (mutant) nothing is filtered out
retain_all(perms, line) == perms

\* Vec::retain(|perm| perm_matches(perm, line))
retain(perms, line) == SelectSeq(perms, LAMBDA p : perm_matches(p, line))

\* Hint::brute_progress
brute_progress(lines, section) ==
    LET ps == permutations(lines, Len(section))
    IN  IF ps.fault THEN Panic ELSE Ok(sum_perms(retain(ps.value, section)))

\* ------------------------------------------------------------- board.rs
\* Board<T>: `data` is the boxed slice behind `ptr`, row-major.
new_default(width, height, default) ==
    [data |-> Repeat(default, width * height), width |-> width, height |-> height]

\* row_unchecked / row_unchecked_mut: the slice [width * i, width * i + width).
row_unchecked(b, i) == SubSeq(b.data, b.width * i + 1, b.width * i + b.width)

\* row_checked: the bound tested is the height.
row_checked(b, i) == IF i < b.height THEN Some(row_unchecked(b, i)) ELSE None

\* Board::row: row_checked(i).unwrap()
row(b, i) ==
    IF is_some(row_checked(b, i)) THEN Ok(unwrap(row_checked(b, i))) ELSE Panic

\* row_checked_mut: the bound tested is the WIDTH (board.rs:63).
row_checked_mut_ok(b, i) == i < b.width

\* Board::set_row: row_checked_mut(i).unwrap(), assert_eq!(slice.len(),
\* vec.len()), then the element-wise copy.  With i < width but i >= height the
\* slice lies outside the allocation (set_row_out_of_bounds); the solver never
\* asks for such a row since it only iterates y < height.
set_row_out_of_bounds(b, i) == row_checked_mut_ok(b, i) /\ ~ (i < b.height)
set_row(b, i, vec) ==
    IF ~ row_checked_mut_ok(b, i) THEN Panic
    ELSE IF b.width # Len(vec) THEN Panic
    ELSE Ok([b EXCEPT !.data =
                [k \in 1..Len(b.data) |->
                    IF k > b.width * i /\ k <= b.width * i + b.width
                    THEN vec[k - b.width * i]
                    ELSE b.data[k]]])

\* Every way a call set_row(i, vec) can end.  `outside` tells whether cells
\* were written outside the allocation.  With i < width but i >= height,
\* row_unchecked_mut builds a slice that starts at or past the end of the
\* boxed slice, which is undefined behaviour: the call may end in a crash, or
\* (when vec has the row's length) return after writing `width` cells of
\* memory that is not the board's, or fail the length assertion.
set_row_outcomes(b, i, vec) ==
    IF set_row_out_of_bounds(b, i)
    THEN {[fault |-> TRUE, value |-> <<>>, outside |-> FALSE]}
            \cup (IF b.width = Len(vec) /\ b.width > 0
                  THEN {[fault |-> FALSE, value |-> b, outside |-> TRUE],
                        [fault |-> TRUE, value |-> <<>>, outside |-> TRUE]}
                  ELSE {})
    ELSE {[fault |-> set_row(b, i, vec).fault,
           value |-> set_row(b, i, vec).value,
           outside |-> FALSE]}

\* col_unchecked: pos_unchecked(x, y) for y in 0..height.
col_unchecked(b, x) == [y1 \in 1..b.height |-> b.data[x + b.width * (y1 - 1) + 1]]

\* Board::col: col_checked(x).unwrap(), the bound tested is the width.
col(b, x) == IF x < b.width THEN Ok(col_unchecked(b, x)) ELSE Panic

\* Board::set_col: assert!(x < width), assert_eq!(vec.len(), height), then
\* *pos_unchecked_mut(x, y) = v for every y.
set_col(b, x, vec) ==
    IF ~ (x < b.width) THEN Panic
    ELSE IF Len(vec) # b.height THEN Panic
    ELSE Ok([b EXCEPT !.data =
                [k \in 1..Len(b.data) |->
                    IF (k - 1) % b.width = x
                    THEN vec[((k - 1) \div b.width) + 1]
                    ELSE b.data[k]]])

\* -------------------------------------------------------------- main.rs
VARIABLES
    row_hints,       \* the row hints the solver was built from
    col_hints,       \* the column hints the solver was built from
    board,           \* Picross::board, a Board<Option<Cell>>
    rows_perms,      \* Picross::rows_perms
    cols_perms,      \* Picross::cols_perms
    backtrack,       \* Picross::backtrack, the last element is the top
    num_backtracks,  \* Picross::num_backtracks
    pc,              \* "idle" | "rows" | "cols" | "end" | "fault"
    idx,             \* the y of the row loop or the x of the column loop
    first_run,       \* find_solution's local first_run
    progressed,      \* find_solution's local progressed
    results,         \* what each finished find_solution call returned
    last,            \* <<where, what>>: the branch the last step took
    p_lines,         \* pure-function specification: the hint
    p_length,        \* pure-function specification: the line length
    p_pc,            \* pure-function specification: "start" | "done"
    p_out,           \* pure-function specification: permutations' result
    b_section,       \* line-solving specification: the three-valued line
    b_out,           \* line-solving specification: brute_progress's result
    b_again,         \* line-solving specification: brute_progress of b_out
    s_board,         \* board specification: the Board<Cell> before the call
    s_i,             \* board specification: the row index given to set_row
    s_vec,           \* board specification: the vector given to set_row
    s_pc,            \* board specification: "start" | "done"
    s_out,           \* board specification: how set_row ended
    m_perms,         \* merge specification: the patterns given to sum_perms
    m_other,         \* merge specification: the same patterns in another
                     \* order, or with one of them repeated
    m_pc,            \* merge specification: "start" | "first" | "done"
    m_out,           \* merge specification: sum_perms(m_perms)
    m_again          \* merge specification: sum_perms(m_other)

solver_vars == <<row_hints, col_hints, board, rows_perms, cols_perms, backtrack,
                 num_backtracks, pc, idx, first_run, progressed, results, last>>
line_vars == <<b_section, b_out, b_again>>
board_vars == <<s_board, s_i, s_vec, s_pc, s_out>>
merge_vars == <<m_perms, m_other, m_pc, m_out, m_again>>
perm_vars == <<p_lines, p_length, p_pc, p_out, line_vars, board_vars, merge_vars>>
vars == <<solver_vars, perm_vars>>

\* sum of the blocks plus one separator between consecutive blocks
RECURSIVE SumSeq(_)
SumSeq(s) == IF s = <<>> THEN 0 ELSE Head(s) + SumSeq(Tail(s))
Span(lines) == SumSeq(lines) + (IF Len(lines) = 0 THEN 0 ELSE Len(lines) - 1)

\* Hints are sequences of NonZeroUsize.
HintsUpTo(blocks, block) == UNION {[1..k -> 1..block] : k \in 0..blocks}
HintSet == {hint \in HintsUpTo((MaxSpan + 1) \div 2, MaxSpan) : Span(hint) <= MaxSpan}

\* (mutant) the other side's length is passed: hint.permutations(hints.len())
get_perms_other_side(hints, len) ==
    [k \in 1..Len(hints) |-> permutations(hints[k], Len(hints))]

\* Picross::new
get_perms(hints, len) == [k \in 1..Len(hints) |-> permutations(hints[k], len)]
new_faults(rh, ch) ==
    \/ \E k \in 1..Len(rh) : get_perms(rh, Len(ch))[k].fault
    \/ \E k \in 1..Len(ch) : get_perms(ch, Len(rh))[k].fault

MergeIdle ==
    /\ m_perms = <<>>
    /\ m_other = <<>>
    /\ m_pc = "off"
    /\ m_out = None
    /\ m_again = None

BoardIdle ==
    /\ s_board = new_default(0, 0, FALSE)
    /\ s_i = 0
    /\ s_vec = <<>>
    /\ s_pc = "off"
    /\ s_out = [fault |-> FALSE, value |-> s_board, outside |-> FALSE]

PermIdle ==
    /\ BoardIdle
    /\ MergeIdle
    /\ p_lines = <<>>
    /\ p_length = 0
    /\ p_pc = "off"
    /\ p_out = Ok(<<>>)
    /\ b_section = <<>>
    /\ b_out = Ok(None)
    /\ b_again = Ok(None)

new(rh, ch) ==
    /\ row_hints = rh
    /\ col_hints = ch
    /\ backtrack = <<>>
    /\ num_backtracks = 0
    /\ idx = 0
    /\ first_run = FALSE
    /\ progressed = FALSE
    /\ results = <<>>
    /\ IF new_faults(rh, ch)
       THEN /\ pc = "fault"
            /\ last = <<"new", "fault">>
            /\ board = new_default(0, 0, None)
            /\ rows_perms = <<>>
            /\ cols_perms = <<>>
       ELSE /\ pc = "idle"
            /\ last = <<"new", "built">>
            /\ board = new_default(Len(ch), Len(rh), None)
            /\ rows_perms = [k \in 1..Len(rh) |-> get_perms(rh, Len(ch))[k].value]
            /\ cols_perms = [k \in 1..Len(ch) |-> get_perms(ch, Len(rh))[k].value]

\* One more puzzle, 4 wide and 3 high with every hint [1]: the smallest on
\* which a line runs out of candidates two guesses deep.
WideRows == << <<1>>, <<1>>, <<1>> >>
WideCols == << <<1>>, <<1>>, <<1>>, <<1>> >>

Init ==
    /\ PermIdle
    /\ \/ \E h \in 1..MaxDim, w \in 1..MaxDim :
            \E rh \in [1..h -> HintSet], ch \in [1..w -> HintSet] : new(rh, ch)
       \/ new(WideRows, WideCols)

width == board.width
height == board.height

NoneResults == Cardinality({k \in 1..Len(results) : results[k] = None})

\* find_solution, line 81: entry.
Call ==
    /\ pc = "idle"
    /\ NoneResults < MaxNone
    /\ pc' = "rows"
    /\ idx' = 0
    /\ first_run' = TRUE
    /\ progressed' = FALSE
    /\ last' = <<"call", "entered">>
    /\ UNCHANGED <<row_hints, col_hints, board, rows_perms, cols_perms, backtrack,
                   num_backtracks, results, perm_vars>>

\* (mutant) gives up while one entry is still on the stack
pop_or_return_early(rp, cp, where) ==
    IF Len(backtrack) <= 1
    THEN /\ pc' = "idle"
         /\ last' = <<where, "none">>
         /\ results' = Append(results, None)
         /\ rows_perms' = rp
         /\ cols_perms' = cp
         /\ UNCHANGED <<board, backtrack, idx, progressed>>
    ELSE /\ board' = backtrack[Len(backtrack)][1]
         /\ rows_perms' = backtrack[Len(backtrack)][2]
         /\ cols_perms' = backtrack[Len(backtrack)][3]
         /\ backtrack' = SubSeq(backtrack, 1, Len(backtrack) - 1)
         /\ pc' = "rows"
         /\ idx' = 0
         /\ progressed' = FALSE
         /\ last' = <<where, "restored">>
         /\ UNCHANGED results

\* (mutant) restores the board of the top entry but not its candidate sets
pop_or_return_board_only(rp, cp, where) ==
    IF backtrack = <<>>
    THEN /\ pc' = "idle"
         /\ last' = <<where, "none">>
         /\ results' = Append(results, None)
         /\ rows_perms' = rp
         /\ cols_perms' = cp
         /\ UNCHANGED <<board, backtrack, idx, progressed>>
    ELSE /\ board' = backtrack[Len(backtrack)][1]
         /\ rows_perms' = rp
         /\ cols_perms' = cp
         /\ backtrack' = SubSeq(backtrack, 1, Len(backtrack) - 1)
         /\ pc' = "rows"
         /\ idx' = 0
         /\ progressed' = FALSE
         /\ last' = <<where, "restored">>
         /\ UNCHANGED results

\* (mutant) restores the top entry without removing it
pop_or_return_keep(rp, cp, where) ==
    IF backtrack = <<>>
    THEN /\ pc' = "idle"
         /\ last' = <<where, "none">>
         /\ results' = Append(results, None)
         /\ rows_perms' = rp
         /\ cols_perms' = cp
         /\ UNCHANGED <<board, backtrack, idx, progressed>>
    ELSE /\ board' = backtrack[Len(backtrack)][1]
         /\ rows_perms' = backtrack[Len(backtrack)][2]
         /\ cols_perms' = backtrack[Len(backtrack)][3]
         /\ backtrack' = backtrack
         /\ pc' = "rows"
         /\ idx' = 0
         /\ progressed' = FALSE
         /\ last' = <<where, "restored">>
         /\ UNCHANGED results

\* `(self.board, self.rows_perms, self.cols_perms) = self.backtrack.pop()?`
\* with the line's retained candidates `rp`, `cp` already stored: with an empty
\* stack the call returns None; otherwise the top entry replaces the three
\* fields and the outer loop starts over (`continue`).
pop_or_return(rp, cp, where) ==
    IF backtrack = <<>>
    THEN /\ pc' = "idle"
         /\ last' = <<where, "none">>
         /\ results' = Append(results, None)
         /\ rows_perms' = rp
         /\ cols_perms' = cp
         /\ UNCHANGED <<board, backtrack, idx, progressed>>
    ELSE /\ board' = backtrack[Len(backtrack)][1]
         /\ rows_perms' = backtrack[Len(backtrack)][2]
         /\ cols_perms' = backtrack[Len(backtrack)][3]
         /\ backtrack' = SubSeq(backtrack, 1, Len(backtrack) - 1)
         /\ pc' = "rows"
         /\ idx' = 0
         /\ progressed' = FALSE
         /\ last' = <<where, "restored">>
         /\ UNCHANGED results

\* (mutant) first_run is not consulted
shrank_or_first_run_forgotten(new_len, old_len, first) == new_len < old_len

\* Lines 89 and 113: `perms.len() < old_len || first_run`, the test that
\* decides whether the line is merged again.
shrank_or_first_run(new_len, old_len, first) == new_len < old_len \/ first

\* One iteration of the row loop, lines 85-104.
RowStep ==
    /\ pc = "rows"
    /\ LET y == idx
           r == row(board, y)
           old_len == Len(rows_perms[y + 1])
           kept == retain(rows_perms[y + 1], r.value)
           rp == [rows_perms EXCEPT ![y + 1] = kept]
           s == sum_perms(kept)
           new_row == unwrap(s)
           wr == set_row(board, y, new_row)
           advance == IF y + 1 < Len(rows_perms)
                      THEN pc' = "rows" /\ idx' = y + 1
                      ELSE pc' = "cols" /\ idx' = 0
       IN  IF r.fault
                \/ \E k \in 1..old_len : ~ perm_matches_assert(rows_perms[y + 1][k], r.value)
           THEN /\ pc' = "fault"
                /\ last' = <<"row", "fault">>
                /\ UNCHANGED <<board, rows_perms, cols_perms, backtrack, idx,
                               progressed, results>>
           ELSE IF ~ shrank_or_first_run(Len(kept), old_len, first_run)
           THEN /\ advance
                /\ last' = <<"row", "skip">>
                /\ rows_perms' = rp
                /\ UNCHANGED <<board, cols_perms, backtrack, progressed, results>>
           ELSE IF s = None
           THEN pop_or_return(rp, cols_perms, "row")
           ELSE IF new_row = r.value
           THEN /\ advance
                /\ last' = <<"row", "same">>
                /\ rows_perms' = rp
                /\ UNCHANGED <<board, cols_perms, backtrack, progressed, results>>
           ELSE IF wr.fault
           THEN /\ pc' = "fault"
                /\ last' = <<"row", "fault">>
                /\ rows_perms' = rp
                /\ progressed' = TRUE
                /\ UNCHANGED <<board, cols_perms, backtrack, idx, results>>
           ELSE /\ advance
                /\ last' = <<"row", "write">>
                /\ rows_perms' = rp
                /\ board' = wr.value
                /\ progressed' = TRUE
                /\ UNCHANGED <<cols_perms, backtrack, results>>
    /\ UNCHANGED <<row_hints, col_hints, num_backtracks, first_run, perm_vars>>

\* One iteration of the column loop, lines 109-128.
ColStep ==
    /\ pc = "cols"
    /\ LET x == idx
           c == col(board, x)
           old_len == Len(cols_perms[x + 1])
           kept == retain(cols_perms[x + 1], c.value)
           cp == [cols_perms EXCEPT ![x + 1] = kept]
           s == sum_perms(kept)
           new_col == unwrap(s)
           wr == set_col(board, x, new_col)
           advance == IF x + 1 < Len(cols_perms)
                      THEN pc' = "cols" /\ idx' = x + 1
                      ELSE pc' = "end" /\ idx' = 0
       IN  IF c.fault
                \/ \E k \in 1..old_len : ~ perm_matches_assert(cols_perms[x + 1][k], c.value)
           THEN /\ pc' = "fault"
                /\ last' = <<"col", "fault">>
                /\ UNCHANGED <<board, rows_perms, cols_perms, backtrack, idx,
                               progressed, results>>
           ELSE IF ~ shrank_or_first_run(Len(kept), old_len, first_run)
           THEN /\ advance
                /\ last' = <<"col", "skip">>
                /\ cols_perms' = cp
                /\ UNCHANGED <<board, rows_perms, backtrack, progressed, results>>
           ELSE IF s = None
           THEN pop_or_return(rows_perms, cp, "col")
           ELSE IF new_col = c.value
           THEN /\ advance
                /\ last' = <<"col", "same">>
                /\ cols_perms' = cp
                /\ UNCHANGED <<board, rows_perms, backtrack, progressed, results>>
           ELSE IF wr.fault
           THEN /\ pc' = "fault"
                /\ last' = <<"col", "fault">>
                /\ cols_perms' = cp
                /\ progressed' = TRUE
                /\ UNCHANGED <<board, rows_perms, backtrack, idx, results>>
           ELSE /\ advance
                /\ last' = <<"col", "write">>
                /\ cols_perms' = cp
                /\ board' = wr.value
                /\ progressed' = TRUE
                /\ UNCHANGED <<rows_perms, backtrack, results>>
    /\ UNCHANGED <<row_hints, col_hints, num_backtracks, first_run, perm_vars>>

\* Lines 136-148: the finished Board<Cell>, written row by row with set_row.
RECURSIVE finish_rows(_, _, _)
finish_rows(b, finished_board, y) ==
    IF ~ (y < b.height) THEN Ok(finished_board)
    ELSE LET r == row(b, y)
             finished_row == [k \in 1..Len(r.value) |-> unwrap(r.value[k])]
             wr == set_row(finished_board, y, finished_row)
         IN  IF r.fault \/ wr.fault THEN Panic
             ELSE finish_rows(b, wr.value, y + 1)

finished(b) == finish_rows(b, new_default(b.width, b.height, FALSE), 0)

\* Line 134: self.board.as_slice().iter().all(Option::is_some)
all_solved(b) == \A k \in 1..Len(b.data) : is_some(b.data[k])

\* (mutant) the search runs from the end: the last index that holds None
last_unsolved(b) ==
    IF \A k \in 1..Len(b.data) : is_some(b.data[k]) THEN None
    ELSE Some((CHOOSE k \in 1..Len(b.data) :
                  /\ is_none(b.data[k])
                  /\ \A j \in (k + 1)..Len(b.data) : is_some(b.data[j])) - 1)

\* Lines 154-159: the first index of as_slice() that holds None, if any.
first_unsolved(b) ==
    IF all_solved(b) THEN None
    ELSE Some((CHOOSE k \in 1..Len(b.data) :
                  /\ is_none(b.data[k])
                  /\ \A j \in 1..(k - 1) : is_some(b.data[j])) - 1)

\* (mutant) the live branch takes the blank cell
guess_live_blank(b, i) == [b EXCEPT !.data[i + 1] = Some(FALSE)]

\* (mutant) the saved branch takes the filled cell as well
guess_alternate_filled(b, i) == [b EXCEPT !.data[i + 1] = Some(TRUE)]

\* Lines 163-165: the two boards of a bifurcation at index i.
guess_live(b, i) == [b EXCEPT !.data[i + 1] = Some(TRUE)]
guess_alternate(b, i) == [b EXCEPT !.data[i + 1] = Some(FALSE)]

\* Lines 166-171: the entry pushed at a bifurcation.
pushed_entry(b, i, rp, cp) == <<guess_alternate(b, i), rp, cp>>

\* (mutant) the push is not counted
add_backtrack_forgotten(n) == n

\* Line 171: self.num_backtracks += 1
add_backtrack(n) == n + 1

\* The end of one pass of the outer loop, lines 132-181.
EndPass ==
    /\ pc = "end"
    /\ first_run' = FALSE
    /\ IF progressed
       THEN IF all_solved(board)
            THEN /\ IF finished(board).fault
                    THEN /\ pc' = "fault"
                         /\ last' = <<"end", "fault">>
                         /\ UNCHANGED results
                    ELSE /\ pc' = "idle"
                         /\ last' = <<"end", "solved">>
                         /\ results' = Append(results, Some(finished(board).value))
                 /\ UNCHANGED <<board, rows_perms, cols_perms, backtrack,
                                num_backtracks, idx, progressed>>
            ELSE /\ pc' = "rows"
                 /\ idx' = 0
                 /\ progressed' = FALSE
                 /\ last' = <<"end", "loop">>
                 /\ UNCHANGED <<board, rows_perms, cols_perms, backtrack,
                                num_backtracks, results>>
       ELSE IF is_some(first_unsolved(board))
            THEN LET i == unwrap(first_unsolved(board))
                 IN  /\ board' = guess_live(board, i)
                     /\ backtrack' = Append(backtrack,
                                        pushed_entry(board, i, rows_perms, cols_perms))
                     /\ num_backtracks' = add_backtrack(num_backtracks)
                     /\ pc' = "rows"
                     /\ idx' = 0
                     /\ progressed' = FALSE
                     /\ last' = <<"end", "guess">>
                     /\ UNCHANGED <<rows_perms, cols_perms, results>>
            ELSE /\ pop_or_return(rows_perms, cols_perms, "end")
                 /\ UNCHANGED num_backtracks
    /\ UNCHANGED <<row_hints, col_hints, perm_vars>>

Next == Call \/ RowStep \/ ColStep \/ EndPass

Spec == Init /\ [][Next]_vars

\* ------------------------------------------- the pure-function specification
SolverIdle ==
    /\ row_hints = <<>>
    /\ col_hints = <<>>
    /\ board = new_default(0, 0, None)
    /\ rows_perms = <<>>
    /\ cols_perms = <<>>
    /\ backtrack = <<>>
    /\ num_backtracks = 0
    /\ pc = "off"
    /\ idx = 0
    /\ first_run = FALSE
    /\ progressed = FALSE
    /\ results = <<>>
    /\ last = <<"off", "off">>

PermInit ==
    /\ SolverIdle
    /\ BoardIdle
    /\ MergeIdle
    /\ p_lines \in HintsUpTo(MaxBlocks, MaxBlock)
    /\ p_length \in 0..MaxLen
    /\ p_pc = "start"
    /\ p_out = Ok(<<>>)
    /\ b_section = <<>>
    /\ b_out = Ok(None)
    /\ b_again = Ok(None)

\* hint.permutations(length)
PermCall ==
    /\ p_pc = "start"
    /\ p_out' = permutations(p_lines, p_length)
    /\ p_pc' = "done"
    /\ UNCHANGED <<p_lines, p_length, line_vars, board_vars, merge_vars,
                   solver_vars>>

PermNext == PermCall

PermSpec == PermInit /\ [][PermNext]_vars

\* -------------------------------------------- the line-solving specification
\* Every &[Option<Cell>] of length n.
ThreeValued(n) == [1..n -> {None, Some(TRUE), Some(FALSE)}]

LineInit ==
    /\ SolverIdle
    /\ BoardIdle
    /\ MergeIdle
    /\ p_lines \in HintsUpTo(MaxBlocks, MaxBlock)
    /\ b_section \in UNION {ThreeValued(n) : n \in 0..MaxLine}
    /\ p_length = Len(b_section)
    /\ p_pc = "start"
    /\ p_out = Ok(<<>>)
    /\ b_out = Ok(None)
    /\ b_again = Ok(None)

\* hint.brute_progress(section)
BruteCall ==
    /\ p_pc = "start"
    /\ b_out' = brute_progress(p_lines, b_section)
    /\ p_pc' = "solved"
    /\ UNCHANGED <<p_lines, p_length, p_out, b_section, b_again, board_vars,
                   merge_vars, solver_vars>>

\* hint.brute_progress(r) on the line r the first call returned
BruteAgain ==
    /\ p_pc = "solved"
    /\ ~ b_out.fault
    /\ is_some(b_out.value)
    /\ b_again' = brute_progress(p_lines, unwrap(b_out.value))
    /\ p_pc' = "again"
    /\ UNCHANGED <<p_lines, p_length, p_out, b_section, b_out, board_vars,
                   merge_vars, solver_vars>>

LineNext == BruteCall \/ BruteAgain

LineSpec == LineInit /\ [][LineNext]_vars

\* ---------------------------------------------------- the board specification
\* Every Board<Cell> of the given width and height.
Boards(w, h) ==
    {[data |-> d, width |-> w, height |-> h] : d \in [1..(w * h) -> BOOLEAN]}

BoardInit ==
    /\ SolverIdle
    /\ MergeIdle
    /\ p_lines = <<>>
    /\ p_length = 0
    /\ p_pc = "off"
    /\ p_out = Ok(<<>>)
    /\ b_section = <<>>
    /\ b_out = Ok(None)
    /\ b_again = Ok(None)
    /\ s_board \in UNION {Boards(w, h) : w \in 1..MaxSide, h \in 1..MaxSide}
    /\ s_i \in 0..MaxSide
    /\ s_vec \in UNION {[1..n -> BOOLEAN] : n \in 0..MaxSide}
    /\ s_pc = "start"
    /\ s_out = [fault |-> FALSE, value |-> s_board, outside |-> FALSE]

\* board.set_row(i, vec)
SetRow ==
    /\ s_pc = "start"
    /\ s_out' \in set_row_outcomes(s_board, s_i, s_vec)
    /\ s_pc' = "done"
    /\ UNCHANGED <<s_board, s_i, s_vec, p_lines, p_length, p_pc, p_out,
                   line_vars, merge_vars, solver_vars>>

BoardNext == SetRow

BoardSpec == BoardInit /\ [][BoardNext]_vars

\* ---------------------------------------------------- the merge specification
\* Every Vec<Cell> of length n, and every sequence of at most k of them.
Patterns(n) == [1..n -> BOOLEAN]
SeqsUpTo(S, k) == UNION {[1..j -> S] : j \in 0..k}

\* The sequences with the elements of s in any order.
Reorderings(s) ==
    {[i \in 1..Len(s) |-> s[f[i]]] :
        f \in {g \in [1..Len(s) -> 1..Len(s)] :
                  \A a, b \in 1..Len(s) : g[a] = g[b] => a = b}}

\* The sequences with one element of s repeated, at any position.
WithDuplicate(s) ==
    {SubSeq(s, 1, pos - 1) \o <<s[j]>> \o SubSeq(s, pos, Len(s)) :
        j \in 1..Len(s), pos \in 1..(Len(s) + 1)}

MergeInit ==
    /\ SolverIdle
    /\ BoardIdle
    /\ p_lines = <<>>
    /\ p_length = 0
    /\ p_pc = "off"
    /\ p_out = Ok(<<>>)
    /\ b_section = <<>>
    /\ b_out = Ok(None)
    /\ b_again = Ok(None)
    /\ \E n \in 0..MaxCells :
          /\ m_perms \in SeqsUpTo(Patterns(n), MaxPatterns)
          /\ m_other \in Reorderings(m_perms) \cup WithDuplicate(m_perms)
    /\ m_pc = "start"
    /\ m_out = None
    /\ m_again = None

\* sum_perms(perms)
SumCall ==
    /\ m_pc = "start"
    /\ m_out' = sum_perms(m_perms)
    /\ m_pc' = "first"
    /\ UNCHANGED <<m_perms, m_other, m_again, p_lines, p_length, p_pc, p_out,
                   line_vars, board_vars, solver_vars>>

\* sum_perms on the reordered (or lengthened) sequence
SumOther ==
    /\ m_pc = "first"
    /\ m_again' = sum_perms(m_other)
    /\ m_pc' = "done"
    /\ UNCHANGED <<m_perms, m_other, m_out, p_lines, p_length, p_pc, p_out,
                   line_vars, board_vars, solver_vars>>

MergeNext == SumCall \/ SumOther

MergeSpec == MergeInit /\ [][MergeNext]_vars

\* ------------------------------------------------------ what a solution is
\* The lengths of the maximal runs of TRUE in a line, left to right.
RECURSIVE RunsFrom(_, _)
RunsFrom(s, cur) ==
    IF s = <<>> THEN (IF cur > 0 THEN <<cur>> ELSE <<>>)
    ELSE IF Head(s) THEN RunsFrom(Tail(s), cur + 1)
    ELSE (IF cur > 0 THEN <<cur>> ELSE <<>>) \o RunsFrom(Tail(s), 0)

RunLengths(line) == RunsFrom(line, 0)

\* Every pattern of length n whose run lengths are the hint.
LinePatterns(hint, n) == {p \in [1..n -> BOOLEAN] : RunLengths(p) = hint}

\* A Board<Cell> of the puzzle's size whose rows and columns match the hints.
IsSolution(g) ==
    /\ g.width = Len(col_hints)
    /\ g.height = Len(row_hints)
    /\ Len(g.data) = g.width * g.height
    /\ \A y \in 0..(g.height - 1) : RunLengths(row_unchecked(g, y)) = row_hints[y + 1]
    /\ \A x \in 0..(g.width - 1) : RunLengths(col_unchecked(g, x)) = col_hints[x + 1]

\* The grids whose rows match the row hints, as Board<Cell> values.
RowMatchingGrids ==
    LET w == Len(col_hints)
        h == Len(row_hints)
        choices == {f \in [1..h -> [1..w -> BOOLEAN]] :
                       \A y \in 1..h : f[y] \in LinePatterns(row_hints[y], w)}
    IN  {[data |-> [k \in 1..(w * h) |-> f[((k - 1) \div w) + 1][((k - 1) % w) + 1]],
          width |-> w, height |-> h] : f \in choices}

Solutions == {g \in RowMatchingGrids : IsSolution(g)}

Returned == {unwrap(results[k]) : k \in {j \in 1..Len(results) : results[j] # None}}

\* No further call will return a grid: the last call returned None, or the
\* solver panicked.
CallsOver == pc = "fault" \/ (pc = "idle" /\ results # <<>> /\ results[Len(results)] = None)

\* ------------------------------------------------------------------ claims

\* C1: every grid returned by find_solution has, in every row and every
\* column, run lengths equal to that line's hint.
C1_ReturnedGridsMatchHints == \A g \in Returned : IsSolution(g)

\* C2: once the calls on a fresh solver have come to an end, every grid
\* whose rows and columns all match their hints has been returned.
C2_EverySolutionReturned == CallsOver => Solutions \subseteq Returned

\* C3: no two find_solution calls on the same solver return the same grid.
C3_NoGridTwice ==
    \A j, k \in 1..Len(results) :
        (j < k /\ results[j] # None /\ results[k] # None) => results[j] # results[k]

\* Two calls have each returned a grid.
C3_Witness ==
    \E j, k \in 1..Len(results) : j < k /\ results[j] # None /\ results[k] # None

\* C4: neither the construction nor any find_solution call reaches a fault.
C4_NoFault == pc # "fault"

\* C5: a hint that cannot fit (sum + blocks - 1 > length) yields the empty
\* list, without a fault.
C5_MisfitYieldsEmpty ==
    (p_pc = "done" /\ Span(p_lines) > p_length) => p_out = Ok(<<>>)

\* The 2x2 puzzle with every hint [1], and a 2x2 Board<Cell>.
Puzzle2x2 ==
    /\ row_hints = << <<1>>, <<1>> >>
    /\ col_hints = << <<1>>, <<1>> >>
Grid2x2(d) == [data |-> d, width |-> 2, height |-> 2]

\* C6: on the 2x2 puzzle with every hint [1], the first call returns the
\* diagonal through cell (0,0), the second the other diagonal, the third None.
C6_TwoDiagonalsThenNone ==
    Puzzle2x2 =>
        /\ pc # "fault"
        /\ Len(results) >= 1 => results[1] = Some(Grid2x2(<<TRUE, FALSE, FALSE, TRUE>>))
        /\ Len(results) >= 2 => results[2] = Some(Grid2x2(<<FALSE, TRUE, TRUE, FALSE>>))
        /\ Len(results) >= 3 => results[3] = None

\* The third call on the 2x2 puzzle has returned.
C6_Witness == Puzzle2x2 /\ Len(results) = 3 /\ pc = "idle"

\* The variant of the search.  SearchWeight is the number of nodes of the
\* binary search tree (one level per unknown cell) still ahead of the live
\* board and of every saved board, a full board that has been returned
\* counting for nothing.  Rank orders the states of a call by (SearchWeight,
\* stack depth, position in the pass).
RECURSIVE Pow2(_)
Pow2(n) == IF n = 0 THEN 1 ELSE 2 * Pow2(n - 1)
Unknowns(b) == Cardinality({k \in 1..Len(b.data) : is_none(b.data[k])})
NodeCount(b) == Pow2(Unknowns(b) + 1) - 1
AlreadyReturned(b) ==
    /\ all_solved(b)
    /\ \E g \in Returned : g.data = [k \in 1..Len(b.data) |-> unwrap(b.data[k])]
SearchWeight ==
    (IF AlreadyReturned(board) THEN 0 ELSE NodeCount(board))
        + SumSeq([k \in 1..Len(backtrack) |-> NodeCount(backtrack[k][1])])
InCall == pc \in {"rows", "cols", "end"}
PassLength == width + height + 2
PassPosition ==
    IF ~ InCall THEN 0
    ELSE (IF progressed THEN PassLength ELSE 0)
            + (IF pc = "rows" THEN (height - idx) + width + 1
               ELSE IF pc = "cols" THEN (width - idx) + 1
               ELSE 1)
Rank ==
    (SearchWeight * (width * height + 1) + Len(backtrack)) * (2 * PassLength)
        + PassPosition
ReturnsGrid == Len(results') = Len(results) + 1 /\ results'[Len(results')] # None

\* C7: every find_solution call comes to an end, and repeated calls return
\* only finitely many grids: Rank is a natural number that every step of a
\* call strictly decreases, so a call cannot run forever; SearchWeight never
\* grows and every returned grid strictly decreases it, so the grids returned
\* are finitely many.
C7_CallsTerminate ==
    [][/\ InCall => (Rank' < Rank /\ Rank' >= 0)
       /\ SearchWeight' <= SearchWeight
       /\ ReturnsGrid => SearchWeight' < SearchWeight]_vars

\* A call that guessed twice and restored a snapshot has ended with None.
C7_Witness ==
    /\ pc = "idle"
    /\ num_backtracks >= 2
    /\ results # <<>>
    /\ results[Len(results)] = None

\* The line about to be processed has no candidate left that agrees with the
\* board, and the code will notice (its candidate set shrank, or first_run).
Contradiction ==
    \/ /\ pc = "rows"
       /\ LET kept == retain(rows_perms[idx + 1], row(board, idx).value)
          IN  kept = <<>> /\ (Len(rows_perms[idx + 1]) > 0 \/ first_run)
    \/ /\ pc = "cols"
       /\ LET kept == retain(cols_perms[idx + 1], col(board, idx).value)
          IN  kept = <<>> /\ (Len(cols_perms[idx + 1]) > 0 \/ first_run)
ReturnsNone == Len(results') = Len(results) + 1 /\ results'[Len(results')] = None

\* C8: a contradiction met with a non-empty backtrack stack restores the top
\* snapshot and the call goes on; a call returns None only with the stack empty.
C8_NoneOnlyOnEmptyStack ==
    [][/\ (Contradiction /\ backtrack # <<>>) =>
              /\ pc' = "rows"
              /\ results' = results
              /\ board' = backtrack[Len(backtrack)][1]
              /\ Len(backtrack') = Len(backtrack) - 1
       /\ ReturnsNone => (backtrack = <<>> /\ backtrack' = <<>>)]_vars

\* A contradiction met with a snapshot on the stack has just been recovered
\* from: the call restored the snapshot and is propagating again.
C8_Witness ==
    /\ last \in {<<"row", "restored">>, <<"col", "restored">>}
    /\ num_backtracks > 0
    /\ pc = "rows"

\* The 1x1 puzzle with row hint [1] and column hint [1].
Puzzle1x1 ==
    /\ row_hints = << <<1>> >>
    /\ col_hints = << <<1>> >>
Pushes == Len(backtrack') = Len(backtrack) + 1

\* C15: num_backtracks is 0 on a new solver, grows by exactly 1 at each push
\* onto the backtrack stack and changes at no other step, so it is never
\* below the stack depth; the 1x1 puzzle with hints [1] and [1] returns its
\* single solution, and then None, with num_backtracks = 0.
C15_CountsPushes ==
    /\ num_backtracks = 0
    /\ [][/\ Pushes => num_backtracks' = num_backtracks + 1
          /\ ~ Pushes => num_backtracks' = num_backtracks
          /\ num_backtracks >= Len(backtrack)
          /\ num_backtracks' >= Len(backtrack')
          /\ Puzzle1x1 =>
                /\ num_backtracks' = 0
                /\ pc' # "fault"
                /\ Len(results') >= 1 =>
                      results'[1] = Some([data |-> <<TRUE>>, width |-> 1, height |-> 1])
                /\ Len(results') >= 2 => results'[2] = None]_vars

\* Two guesses were pushed and a snapshot has been popped since: the count
\* is above the stack depth.
C15_Witness ==
    /\ num_backtracks >= 2
    /\ Len(backtrack) = 1
    /\ last[2] = "restored"

\* C16: find_solution returns a grid only at the end of a pass in which no
\* row and no column was written (progressed is false) and no cell is
\* unknown, never at the end of a pass that wrote a line.
C16_ReturnsOnlyAtFixpoint ==
    [][ReturnsGrid => (pc = "end" /\ ~ progressed /\ all_solved(board))]_vars

\* The unknown cells of the live board (1-based positions in row-major
\* order) and the lowest of them.
UnknownCells == {k \in 1..Len(board.data) : is_none(board.data[k])}
LowestUnknown == CHOOSE k \in UnknownCells : \A j \in UnknownCells : k <= j
SameShape(b1, b2) ==
    /\ b1.width = b2.width
    /\ b1.height = b2.height
    /\ Len(b1.data) = Len(b2.data)

\* C17: a pass that ends with no progress and an unknown cell guesses at the
\* lowest unknown row-major index i: the live board gets cell i filled, the
\* stack grows by one entry made of the board with cell i blank and of the
\* row and column candidate sets of that moment, and no other cell, older
\* entry or candidate set changes.
C17_GuessFrame ==
    [][(pc = "end" /\ ~ progressed /\ UnknownCells # {}) =>
          LET i == LowestUnknown
              top == backtrack'[Len(backtrack')]
          IN  /\ SameShape(board', board)
              /\ board'.data[i] = Some(TRUE)
              /\ \A k \in (1..Len(board.data)) \ {i} : board'.data[k] = board.data[k]
              /\ Len(backtrack') = Len(backtrack) + 1
              /\ \A k \in 1..Len(backtrack) : backtrack'[k] = backtrack[k]
              /\ SameShape(top[1], board)
              /\ top[1].data[i] = Some(FALSE)
              /\ \A k \in (1..Len(board.data)) \ {i} : top[1].data[k] = board.data[k]
              /\ top[2] = rows_perms
              /\ top[3] = cols_perms
              /\ rows_perms' = rows_perms
              /\ cols_perms' = cols_perms
              /\ results' = results
              /\ pc' = "rows"]_vars

\* A second guess has just been pushed, at a cell other than the first, with
\* a candidate set that propagation had already narrowed.
C17_Witness ==
    /\ last = <<"end", "guess">>
    /\ Len(backtrack) = 2
    /\ \E k \in 2..Len(board.data) :
          /\ board.data[k] = Some(TRUE)
          /\ backtrack[2][1].data[k] = Some(FALSE)
    /\ backtrack[2][2] # backtrack[1][2]

\* C18: a contradiction met with a non-empty stack makes the live board, the
\* row candidate sets and the column candidate sets exactly the three
\* components of the most recently pushed entry and removes that entry,
\* leaving the older entries as they are; and every step that removes an
\* entry restores the three together in this way.
C18_RestoresTopTogether ==
    [][LET n == Len(backtrack)
           restored == /\ board' = backtrack[n][1]
                       /\ rows_perms' = backtrack[n][2]
                       /\ cols_perms' = backtrack[n][3]
                       /\ Len(backtrack') = n - 1
                       /\ \A k \in 1..(n - 1) : backtrack'[k] = backtrack[k]
       IN  /\ (Contradiction /\ n > 0) => restored
           /\ Len(backtrack') < n => restored]_vars

\* A contradiction two guesses deep has just been recovered from: the newer
\* entry was restored, with candidate sets narrower than those of
\* construction, and the older entry is still on the stack.
C18_Witness ==
    /\ last \in {<<"row", "restored">>, <<"col", "restored">>}
    /\ Len(backtrack) = 1
    /\ rows_perms # [k \in 1..height |-> permutations(row_hints[k], width).value]

\* The patterns of a candidate list, as a set.
Candidates(perms) == {perms[k] : k \in 1..Len(perms)}
Shrinks(new_perms, old_perms) ==
    /\ Len(new_perms) = Len(old_perms)
    /\ \A k \in 1..Len(old_perms) :
          /\ Candidates(new_perms[k]) \subseteq Candidates(old_perms[k])
          /\ Len(new_perms[k]) <= Len(old_perms[k])
WithinConstruction ==
    /\ \A k \in 1..Len(rows_perms) :
          Candidates(rows_perms[k]) \subseteq
              Candidates(permutations(row_hints[k], width).value)
    /\ \A k \in 1..Len(cols_perms) :
          Candidates(cols_perms[k]) \subseteq
              Candidates(permutations(col_hints[k], height).value)

\* C19: at every step that restores no snapshot, each row's and each
\* column's candidate set is a subset of what it was before the step; and at
\* all times each is a subset of permutations(hint, line length): it is one
\* on a new solver, and again after every step that changes a candidate set.
C19_CandidatesShrink ==
    /\ WithinConstruction
    /\ [][/\ Len(backtrack') >= Len(backtrack) =>
                 /\ Shrinks(rows_perms', rows_perms)
                 /\ Shrinks(cols_perms', cols_perms)
          /\ (rows_perms' # rows_perms \/ cols_perms' # cols_perms) =>
                 WithinConstruction']_vars

\* Inside a branch opened by a guess, some row and some column have lost
\* candidates and kept others.
C19_Witness ==
    /\ InCall
    /\ backtrack # <<>>
    /\ last[2] \in {"write", "same", "skip"}
    /\ \E k \in 1..Len(rows_perms) :
          /\ Len(rows_perms[k]) > 0
          /\ Len(rows_perms[k]) < Len(permutations(row_hints[k], width).value)
    /\ \E k \in 1..Len(cols_perms) :
          /\ Len(cols_perms[k]) > 0
          /\ Len(cols_perms[k]) < Len(permutations(col_hints[k], height).value)

\* C20: whenever a pass ends with no progress, every row and every column of
\* the live board is what the uncached brute_progress returns for that line
\* and its hint, also on a board restored from a snapshot.
C20_FixpointOfUncached ==
    (pc = "end" /\ ~ progressed) =>
        /\ \A y \in 0..(height - 1) :
              brute_progress(row_hints[y + 1], row_unchecked(board, y))
                  = Ok(Some(row_unchecked(board, y)))
        /\ \A x \in 0..(width - 1) :
              brute_progress(col_hints[x + 1], col_unchecked(board, x))
                  = Ok(Some(col_unchecked(board, x)))

\* After a snapshot was restored, a later pass of the same call (first_run
\* is false, so unchanged candidate sets were skipped) has ended with no
\* progress and cells still unknown.
C20_Witness ==
    /\ pc = "end"
    /\ ~ progressed
    /\ ~ first_run
    /\ num_backtracks > Len(backtrack)
    /\ UnknownCells # {}
    /\ UnknownCells # 1..Len(board.data)

\* C22: once a find_solution call has returned None, every later call on the
\* same solver returns None as well (no grid, no fault), and the backtrack
\* stack is empty from then on.
C22_ExhaustionAbsorbing ==
    \A j \in 1..Len(results) :
        results[j] = None =>
            /\ \A k \in j..Len(results) : results[k] = None
            /\ backtrack = <<>>
            /\ pc # "fault"

\* C23: at every step that restores no snapshot (a row or column write-back,
\* a guess, or any other step), each cell of the live board that is filled
\* or blank keeps its value: it is neither set back to unknown nor flipped.
C23_KnowledgeGrows ==
    [][Len(backtrack') >= Len(backtrack) =>
          /\ SameShape(board', board)
          /\ \A k \in 1..Len(board.data) :
                is_some(board.data[k]) => board'.data[k] = board.data[k]]_vars

\* Inside a branch opened by a guess, a column has just been written on a
\* board that already had known cells, and cells are still unknown.
C23_Witness ==
    /\ last = <<"col", "write">>
    /\ backtrack # <<>>
    /\ UnknownCells # {}
    /\ Len(board.data) - Cardinality(UnknownCells) >= 3

\* C9: permutations(H, n) is exactly the set of patterns of length n whose
\* run lengths are H, each listed once.
C9_PermutationsExact ==
    p_pc = "done" =>
        /\ ~ p_out.fault
        /\ {p_out.value[k] : k \in 1..Len(p_out.value)} = LinePatterns(p_lines, p_length)
        /\ Len(p_out.value) = Cardinality(LinePatterns(p_lines, p_length))

\* C10: the empty hint yields the one all-blank pattern; one block of size L
\* yields nothing when L > n, and else the n - L + 1 patterns with the run at
\* offsets 0, 1, ..., n - L in that order.
C10_BaseCases ==
    p_pc = "done" =>
        /\ p_lines = <<>> => p_out = Ok(<<[j \in 1..p_length |-> FALSE]>>)
        /\ Len(p_lines) = 1 =>
             LET L == p_lines[1]
             IN  IF L > p_length THEN p_out = Ok(<<>>)
                 ELSE /\ ~ p_out.fault
                      /\ Len(p_out.value) = p_length - L + 1
                      /\ \A k \in 0..(p_length - L) :
                            /\ Len(p_out.value[k + 1]) = p_length
                            /\ \A j \in 0..(p_length - 1) :
                                  p_out.value[k + 1][j + 1] = (k <= j /\ j < k + L)

\* A single block with at least two offsets has been enumerated.
C10_Witness ==
    /\ p_pc = "done"
    /\ Len(p_lines) = 1
    /\ p_lines[1] + 1 <= p_length
    /\ Len(p_out.value) >= 2

\* ------------------------------------------------------ line-solving claims
AllUnknown(n) == [k \in 1..n |-> None]
Known(line) == {k \in 1..Len(line) : is_some(line[k])}

\* The patterns permutations lists, as a set (none when it faults).
Listed(ps) == {ps.value[k] : k \in 1..Len(ps.value)}

\* The patterns of S that have, in every known cell of line, the value there.
Agreeing(S, line) == {q \in S : \A k \in Known(line) : q[k] = unwrap(line[k])}

\* The line of length n that is known exactly where all patterns of the
\* non-empty set S have the same value, with that value.
MergeOf(S, n) ==
    [k \in 1..n |->
        IF \A q1, q2 \in S : q1[k] = q2[k]
        THEN Some((CHOOSE q \in S : TRUE)[k])
        ELSE None]

\* C11 (as stated): solving an all-unknown line yields a fully unknown line
\* unless permutations(H, n) has exactly one element.
C11_UnknownUnlessUnique ==
    (p_pc = "solved" /\ b_section = AllUnknown(p_length)) =>
        LET ps == permutations(p_lines, p_length)
        IN  (ps.fault \/ Len(ps.value) # 1) =>
                b_out = Ok(Some(AllUnknown(p_length)))

\* C11 (amended): solving an all-unknown line yields no result when
\* permutations(H, n) is empty, and otherwise the line that is known exactly
\* in the cells where all its patterns agree; that line is fully determined
\* exactly when permutations(H, n) has exactly one element, and has an
\* unknown cell when it has two or more.  A fault of permutations is a fault
\* of the line solve.
C11_AllUnknownMerge ==
    (p_pc = "solved" /\ b_section = AllUnknown(p_length)) =>
        LET ps == permutations(p_lines, p_length)
        IN  IF ps.fault THEN b_out.fault
            ELSE /\ ~ b_out.fault
                 /\ is_none(b_out.value) <=> Len(ps.value) = 0
                 /\ Len(ps.value) >= 1 =>
                       /\ unwrap(b_out.value) = MergeOf(Listed(ps), p_length)
                       /\ (Known(unwrap(b_out.value)) = 1..p_length)
                              <=> Len(ps.value) = 1

\* Several patterns were merged from an all-unknown line into a line with
\* known and unknown cells.
C11_Witness ==
    /\ p_pc = "solved"
    /\ b_section = AllUnknown(p_length)
    /\ Len(permutations(p_lines, p_length).value) >= 2
    /\ is_some(b_out.value)
    /\ Known(unwrap(b_out.value)) # {}
    /\ Known(unwrap(b_out.value)) # 1..p_length

\* C12: brute_progress(k) returns no result exactly when no pattern of
\* permutations(H, len(k)) agrees with the known cells of k, and otherwise
\* the line that is filled (blank) exactly where every agreeing pattern is
\* filled (blank) and unknown elsewhere.
C12_LineSolveExact ==
    p_pc = "solved" =>
        LET agreeing == Agreeing(Listed(permutations(p_lines, p_length)), b_section)
        IN  /\ ~ b_out.fault
            /\ is_none(b_out.value) <=> agreeing = {}
            /\ agreeing # {} => unwrap(b_out.value) = MergeOf(agreeing, p_length)

\* C13: when brute_progress(k) returns a line r, brute_progress(r) returns
\* r again, with no contradiction and no fault.
C13_Idempotent == p_pc = "again" => b_again = b_out

\* The first call learnt a cell of a partly known line and left another
\* unknown, and the second call has been made.
C13_Witness ==
    /\ p_pc = "again"
    /\ Known(b_section) # {}
    /\ Known(unwrap(b_out.value)) # Known(b_section)
    /\ Known(unwrap(b_out.value)) # 1..p_length

\* ------------------------------------------------------------- board claims
\* C14: set_row(i, values) with len(values) = width replaces row i and
\* leaves every other cell alone for every i < height, and for every
\* i >= height it fails without having written any cell.
C14_RowIndexBelowHeight ==
    (s_pc = "done" /\ Len(s_vec) = s_board.width) =>
        IF s_i < s_board.height
        THEN /\ ~ s_out.fault
             /\ ~ s_out.outside
             /\ s_out.value.width = s_board.width
             /\ s_out.value.height = s_board.height
             /\ row_unchecked(s_out.value, s_i) = s_vec
             /\ \A y \in (0..(s_board.height - 1)) \ {s_i} :
                   row_unchecked(s_out.value, y) = row_unchecked(s_board, y)
        ELSE s_out.fault /\ ~ s_out.outside

\* ------------------------------------------------------------- merge claims
\* C21: sum_perms returns no result exactly for the empty sequence, and for
\* a non-empty sequence of equal-length patterns it returns the same line
\* for every reordering of the sequence and for the sequence with one of its
\* patterns repeated: the line known exactly where all patterns agree.
C21_MergeOrderIndependent ==
    /\ m_pc \in {"first", "done"} =>
          /\ is_none(m_out) <=> m_perms = <<>>
          /\ m_perms # <<>> =>
                unwrap(m_out) = MergeOf(Candidates(m_perms), Len(m_perms[1]))
    /\ m_pc = "done" => m_again = m_out

\* Three patterns that agree on one cell and differ on another were merged
\* in two different orders.
C21_Witness ==
    /\ m_pc = "done"
    /\ Len(m_perms) = 3
    /\ Len(m_other) = 3
    /\ m_other # m_perms
    /\ m_perms[1] # m_perms[3]
    /\ is_some(m_out)
    /\ Known(unwrap(m_out)) # {}
    /\ Known(unwrap(m_out)) # 1..Len(m_perms[1])

====
